---- MODULE Spec2Model ----
(***************************************************************************)
(* Model of the in-memory event store (src/src/storage/in_memory_storage.rs *)
(* and src/src/storage/mod.rs): the three indexes guarded by one           *)
(* tokio::sync::RwLock, the global atomic id counter, and the two          *)
(* operations store and get_events, called by concurrent request tasks.    *)
(*                                                                         *)
(* Option<T> is modelled as a set: {} is None and {x} is Some(x).          *)
(***************************************************************************)
EXTENDS Integers, Sequences, FiniteSets, TLC

\* ---------------------------------------------------------------- bounds
\* Number of concurrent request tasks of the concurrent specification.
NumProcs == 2
\* Number of ids the counter may hand out (accepted store calls) in the
\* concurrent specification.
MaxEvents == 3
\* The same in the one-task specification; above MAX_QUERIED_EVENTS.
MaxSeqEvents == 5
\* The same in the small one-task specification.
MaxFewEvents == 1
\* Largest timestamp an event carries.
MaxTimestamp == 2

\* ------------------------------------------------------ program constants
MAX_QUERIED_EVENTS == 4
FIRST_EVENT_ID == 1
REJECTED_EVENT_TYPE == "winter wrap up"

\* ---------------------------------------------------------------- inputs
Procs == 1..NumProcs
\* The one-task specification runs the first task alone.
SeqProcs == {1}
Timestamps == 1..MaxTimestamp
AcceptedTypes == {"login", "foo"}
EventTypes == AcceptedTypes \cup {REJECTED_EVENT_TYPE}
Payloads == {"p"}
\* struct Event { event_type, timestamp, payload }
Event == [event_type : EventTypes, timestamp : Timestamps, payload : Payloads]
\* Bounds of a query reach one below and one above the stored timestamps.
BoundValues == Timestamps
OptionOf(S) == {{}} \cup {{x} : x \in S}
\* The parameters of get_events: event_type, start, end.
Query == [event_type : OptionOf(EventTypes),
          start : OptionOf(BoundValues), end : OptionOf(BoundValues)]

VARIABLES
    event_by_id,                  \* IndexedEvents.event_by_id
    events_by_timestamp,          \* IndexedEvents.events_by_timestamp
    events_by_type_by_timestamp,  \* IndexedEvents.events_by_type_by_timestamp
    NEXT_EVENT_ID,                \* the static AtomicU64
    lock_holders,                 \* tasks holding a guard of the RwLock
    lock_waiters,                 \* FIFO queue of tasks awaiting the RwLock
    pc,                           \* position of each task in its handler
    event,                        \* the Event a task is storing
    event_id,                     \* the id a storing task got from fetch_add
    inserted,                     \* history: events in the order their
                                  \* store held the write guard
    response                      \* what the step just taken returned

indexes == <<event_by_id, events_by_timestamp, events_by_type_by_timestamp>>
vars == <<event_by_id, events_by_timestamp, events_by_type_by_timestamp,
          NEXT_EVENT_ID, lock_holders, lock_waiters, pc, event, event_id,
          inserted, response>>

\* ------------------------------------------------------- return values
Ok(events) == [kind |-> "Ok", events |-> events]
InvalidEventType(label) == [kind |-> "InvalidEventType", label |-> label]
ResultTooLarge(n) == [kind |-> "ResultTooLarge", max |-> n]
\* BTreeMap::range panics; the task unwinds and its guard is dropped.
Panic == [kind |-> "Panic"]

NoEvent == [event_type |-> "", timestamp |-> 0, payload |-> ""]
NoResponse == [op |-> "none", proc |-> 0, arg |-> <<>>, result |-> [kind |-> "none"]]
StoreResponse(p, e, r) == [op |-> "store", proc |-> p, arg |-> e, result |-> r]
GetResponse(p, q, r) == [op |-> "get_events", proc |-> p, arg |-> q, result |-> r]

\* ------------------------------------------------------ map/vec helpers
Min(S) == CHOOSE x \in S : \A y \in S : x <= y

\* Mutant of Push: the bucket is kept in ascending id order.
PushSortedById(vec, id) ==
    SelectSeq(vec, LAMBDA x : x < id) \o <<id>> \o SelectSeq(vec, LAMBDA x : x > id)

\* Vec::push
Push(vec, id) == Append(vec, id)

\* Mutant of EntryPush: map.insert(key, vec![id]) replaces the bucket.
EntryPushReplace(map, key, id) ==
    [k \in DOMAIN map \cup {key} |-> IF k = key THEN <<id>> ELSE map[k]]

\* map.entry(key).or_default().push(id) on a BTreeMap<Timestamp, Vec<EventId>>
EntryPush(map, key, id) ==
    [k \in DOMAIN map \cup {key} |->
        IF k = key
        THEN Push(IF key \in DOMAIN map THEN map[key] ELSE <<>>, id)
        ELSE map[k]]

\* Iterator::take(n)
Take(s, n) == SubSeq(s, 1, IF Len(s) < n THEN Len(s) ELSE n)

\* ------------------------------------------------------------ get_events
\* Mutant of SelectIndex: the type filter is ignored.
SelectIndexIgnoringType(event_type) == {events_by_timestamp}

\* Mutant of SelectIndex: an unknown type falls back to the global index.
SelectIndexUnknownFallsBack(event_type) ==
    IF event_type \cap DOMAIN events_by_type_by_timestamp = {}
    THEN {events_by_timestamp}
    ELSE {events_by_type_by_timestamp[t] :
            t \in event_type \cap DOMAIN events_by_type_by_timestamp}

\* The index a query scans: None when the type filter names an unknown type.
SelectIndex(event_type) ==
    IF event_type = {}
    THEN {events_by_timestamp}
    ELSE {events_by_type_by_timestamp[t] :
            t \in event_type \cap DOMAIN events_by_type_by_timestamp}

\* Mutant of RangeKeys: the end bound is Bound::Excluded.
RangeKeysEndExcluded(map, start, end) ==
    {k \in DOMAIN map : (\A s \in start : s <= k) /\ (\A e \in end : k < e)}

\* BTreeMap::range((Included|Unbounded, Included|Unbounded)): the keys visited.
RangeKeys(map, start, end) ==
    {k \in DOMAIN map : (\A s \in start : s <= k) /\ (\A e \in end : k <= e)}

\* BTreeMap::range panics when start > end, unless the map has no root node
\* (a map that never held an entry).
RangePanics(map, start, end) ==
    /\ DOMAIN map # {}
    /\ \E s \in start, e \in end : s > e

\* Mutant of FlatMapIds: the buckets are visited in descending key order.
RECURSIVE FlatMapIdsDescending(_, _)
FlatMapIdsDescending(map, keys) ==
    IF keys = {} THEN <<>>
    ELSE LET k == Min(keys) IN FlatMapIdsDescending(map, keys \ {k}) \o map[k]

\* flat_map over the buckets of the range in ascending key order.
RECURSIVE FlatMapIds(_, _)
FlatMapIds(map, keys) ==
    IF keys = {} THEN <<>>
    ELSE LET k == Min(keys) IN map[k] \o FlatMapIds(map, keys \ {k})

\* flat_map(|event_id| event_by_id.get(event_id).cloned()): ids without an
\* event are skipped.
ResolveIds(ids) ==
    LET present == SelectSeq(ids, LAMBDA id : id \in DOMAIN event_by_id)
    IN  [n \in 1..Len(present) |-> event_by_id[present[n]]]

get_events(q) ==
    LET selected == SelectIndex(q.event_type) IN
    IF selected = {} THEN Ok(<<>>)
    ELSE LET events == CHOOSE m \in selected : TRUE IN
         IF RangePanics(events, q.start, q.end) THEN Panic
         ELSE LET result == Take(ResolveIds(FlatMapIds(events,
                                    RangeKeys(events, q.start, q.end))),
                                 MAX_QUERIED_EVENTS + 1)
              IN IF Len(result) > MAX_QUERIED_EVENTS
                 THEN ResultTooLarge(MAX_QUERIED_EVENTS)
                 ELSE Ok(result)

\* ------------------------------------------------------------ the RwLock
\* Mutant of StoreLockMode: store takes the shared guard.
StoreLockModeShared == "read"

\* The mode in which store / get_events ask for the lock.
StoreLockMode == "write"
GetLockMode == "read"

\* RwLock::write().await / RwLock::read().await: join the FIFO queue.
Enqueue(p, mode) ==
    lock_waiters' = Append(lock_waiters, [proc |-> p, mode |-> mode])

\* The request at the head of the queue can be granted.
CanGrant(req) ==
    IF req.mode = "write"
    THEN lock_holders = {}
    ELSE \A h \in lock_holders : h.mode = "read"

\* Mutant of Release: the guard is kept instead of dropped.
ReleaseKeepsGuard(p) ==
    lock_holders' = lock_holders

\* Dropping the guard.
Release(p) ==
    lock_holders' = {h \in lock_holders : h.proc # p}

\* -------------------------------------------------------------- Init
Init ==
    /\ event_by_id = <<>>
    /\ events_by_timestamp = <<>>
    /\ events_by_type_by_timestamp = <<>>
    /\ NEXT_EVENT_ID = FIRST_EVENT_ID
    /\ lock_holders = {}
    /\ lock_waiters = <<>>
    /\ pc = [p \in Procs |-> "idle"]
    /\ event = [p \in Procs |-> NoEvent]
    /\ event_id = [p \in Procs |-> 0]
    /\ inserted = <<>>
    /\ response = NoResponse

\* -------------------------------------------------------------- store
\* Mutant of StoreRejected: the type is checked after the event is installed.
StoreRejectedAfterInsert(p, e) ==
    /\ pc[p] = "idle"
    /\ e.event_type = REJECTED_EVENT_TYPE
    /\ lock_holders = {}
    /\ events_by_timestamp' = EntryPush(events_by_timestamp, e.timestamp, 0)
    /\ event_by_id' = [i \in DOMAIN event_by_id \cup {0} |->
                          IF i = 0 THEN e ELSE event_by_id[i]]
    /\ response' = StoreResponse(p, e, InvalidEventType(e.event_type))
    /\ UNCHANGED <<events_by_type_by_timestamp, NEXT_EVENT_ID, lock_holders,
                   lock_waiters, pc, event, event_id, inserted>>

\* store is called with a rejected type: it returns before anything else.
StoreRejected(p, e) ==
    /\ pc[p] = "idle"
    /\ e.event_type = REJECTED_EVENT_TYPE
    /\ response' = StoreResponse(p, e, InvalidEventType(e.event_type))
    /\ UNCHANGED <<indexes, NEXT_EVENT_ID, lock_holders, lock_waiters, pc,
                   event, event_id, inserted>>

\* Mutant of StoreAllocate: the counter is loaded, not incremented.
StoreAllocateLoadsCounter(p, e) ==
    /\ pc[p] = "idle"
    /\ e.event_type # REJECTED_EVENT_TYPE
    /\ event_id' = [event_id EXCEPT ![p] = NEXT_EVENT_ID]
    /\ event' = [event EXCEPT ![p] = e]
    /\ pc' = [pc EXCEPT ![p] = "s_acquire"]
    /\ response' = NoResponse
    /\ UNCHANGED <<indexes, NEXT_EVENT_ID, lock_holders, lock_waiters, inserted>>

\* store is called with an accepted type: NEXT_EVENT_ID.fetch_add(1).
StoreAllocate(p, e) ==
    /\ pc[p] = "idle"
    /\ e.event_type # REJECTED_EVENT_TYPE
    /\ event_id' = [event_id EXCEPT ![p] = NEXT_EVENT_ID]
    /\ NEXT_EVENT_ID' = NEXT_EVENT_ID + 1
    /\ event' = [event EXCEPT ![p] = e]
    /\ pc' = [pc EXCEPT ![p] = "s_acquire"]
    /\ response' = NoResponse
    /\ UNCHANGED <<indexes, lock_holders, lock_waiters, inserted>>

\* self.events.write().await: the task starts waiting for the lock.
StoreAcquire(p) ==
    /\ pc[p] = "s_acquire"
    /\ Enqueue(p, StoreLockMode)
    /\ pc' = [pc EXCEPT ![p] = "s_wait"]
    /\ response' = NoResponse
    /\ UNCHANGED <<indexes, NEXT_EVENT_ID, lock_holders, event, event_id, inserted>>

\* The guard is handed to the storing task at the head of the queue.
StoreGranted(p) ==
    /\ pc[p] = "s_wait"
    /\ lock_waiters # <<>>
    /\ Head(lock_waiters).proc = p
    /\ CanGrant(Head(lock_waiters))
    /\ lock_holders' = lock_holders \cup {Head(lock_waiters)}
    /\ lock_waiters' = Tail(lock_waiters)
    /\ pc' = [pc EXCEPT ![p] = "s_by_type"]
    /\ response' = NoResponse
    /\ UNCHANGED <<indexes, NEXT_EVENT_ID, event, event_id, inserted>>

\* Mutant of StoreByType: the bucket is keyed by the id instead of the timestamp.
StoreByTypeKeyedById(p) ==
    /\ pc[p] = "s_by_type"
    /\ LET t == event[p].event_type
           old == IF t \in DOMAIN events_by_type_by_timestamp
                  THEN events_by_type_by_timestamp[t] ELSE <<>>
       IN events_by_type_by_timestamp' =
            [k \in DOMAIN events_by_type_by_timestamp \cup {t} |->
                IF k = t THEN EntryPush(old, event_id[p], event_id[p])
                ELSE events_by_type_by_timestamp[k]]
    /\ pc' = [pc EXCEPT ![p] = "s_by_timestamp"]
    /\ response' = NoResponse
    /\ UNCHANGED <<event_by_id, events_by_timestamp, NEXT_EVENT_ID,
                   lock_holders, lock_waiters, event, event_id, inserted>>

\* events_by_type_by_timestamp.entry(type).or_default().entry(ts).or_default().push(id)
StoreByType(p) ==
    /\ pc[p] = "s_by_type"
    /\ LET t == event[p].event_type
           old == IF t \in DOMAIN events_by_type_by_timestamp
                  THEN events_by_type_by_timestamp[t] ELSE <<>>
       IN events_by_type_by_timestamp' =
            [k \in DOMAIN events_by_type_by_timestamp \cup {t} |->
                IF k = t THEN EntryPush(old, event[p].timestamp, event_id[p])
                ELSE events_by_type_by_timestamp[k]]
    /\ pc' = [pc EXCEPT ![p] = "s_by_timestamp"]
    /\ response' = NoResponse
    /\ UNCHANGED <<event_by_id, events_by_timestamp, NEXT_EVENT_ID,
                   lock_holders, lock_waiters, event, event_id, inserted>>

\* Mutant of StoreByTimestamp: the id is read from the counter again.
StoreByTimestampRereadsCounter(p) ==
    /\ pc[p] = "s_by_timestamp"
    /\ events_by_timestamp' =
         EntryPush(events_by_timestamp, event[p].timestamp, NEXT_EVENT_ID - 1)
    /\ pc' = [pc EXCEPT ![p] = "s_by_id"]
    /\ response' = NoResponse
    /\ UNCHANGED <<event_by_id, events_by_type_by_timestamp, NEXT_EVENT_ID,
                   lock_holders, lock_waiters, event, event_id, inserted>>

\* Mutant of StoreByTimestamp: a bucket keeps only its latest
\* MAX_QUERIED_EVENTS ids.
StoreByTimestampEvicts(p) ==
    /\ pc[p] = "s_by_timestamp"
    /\ LET pushed == EntryPush(events_by_timestamp, event[p].timestamp, event_id[p])
       IN events_by_timestamp' =
            [k \in DOMAIN pushed |->
                IF Len(pushed[k]) > MAX_QUERIED_EVENTS THEN Tail(pushed[k])
                ELSE pushed[k]]
    /\ pc' = [pc EXCEPT ![p] = "s_by_id"]
    /\ response' = NoResponse
    /\ UNCHANGED <<event_by_id, events_by_type_by_timestamp, NEXT_EVENT_ID,
                   lock_holders, lock_waiters, event, event_id, inserted>>

\* events_by_timestamp.entry(ts).or_default().push(id)
StoreByTimestamp(p) ==
    /\ pc[p] = "s_by_timestamp"
    /\ events_by_timestamp' =
         EntryPush(events_by_timestamp, event[p].timestamp, event_id[p])
    /\ pc' = [pc EXCEPT ![p] = "s_by_id"]
    /\ response' = NoResponse
    /\ UNCHANGED <<event_by_id, events_by_type_by_timestamp, NEXT_EVENT_ID,
                   lock_holders, lock_waiters, event, event_id, inserted>>

\* Mutant of StoreById: Ok(()) is returned without the insert into event_by_id.
StoreByIdSkipsInsert(p) ==
    /\ pc[p] = "s_by_id"
    /\ inserted' = Append(inserted, event[p])
    /\ Release(p)
    /\ pc' = [pc EXCEPT ![p] = "idle"]
    /\ event' = [event EXCEPT ![p] = NoEvent]
    /\ event_id' = [event_id EXCEPT ![p] = 0]
    /\ response' = StoreResponse(p, event[p], Ok(<<>>))
    /\ UNCHANGED <<event_by_id, events_by_timestamp, events_by_type_by_timestamp,
                   NEXT_EVENT_ID, lock_waiters>>

\* event_by_id.insert(id, event); Ok(()) and the guard is dropped.
StoreById(p) ==
    /\ pc[p] = "s_by_id"
    /\ event_by_id' = [i \in DOMAIN event_by_id \cup {event_id[p]} |->
                          IF i = event_id[p] THEN event[p] ELSE event_by_id[i]]
    /\ inserted' = Append(inserted, event[p])
    /\ Release(p)
    /\ pc' = [pc EXCEPT ![p] = "idle"]
    /\ event' = [event EXCEPT ![p] = NoEvent]
    /\ event_id' = [event_id EXCEPT ![p] = 0]
    /\ response' = StoreResponse(p, event[p], Ok(<<>>))
    /\ UNCHANGED <<events_by_timestamp, events_by_type_by_timestamp,
                   NEXT_EVENT_ID, lock_waiters>>

\* ---------------------------------------------------------- get_events
\* self.events.read().await: the task starts waiting for the lock.
GetAcquire(p) ==
    /\ pc[p] = "idle"
    /\ Enqueue(p, GetLockMode)
    /\ pc' = [pc EXCEPT ![p] = "g_wait"]
    /\ response' = NoResponse
    /\ UNCHANGED <<indexes, NEXT_EVENT_ID, lock_holders, event, event_id, inserted>>

\* The guard is handed to the querying task at the head of the queue.
GetGranted(p) ==
    /\ pc[p] = "g_wait"
    /\ lock_waiters # <<>>
    /\ Head(lock_waiters).proc = p
    /\ CanGrant(Head(lock_waiters))
    /\ lock_holders' = lock_holders \cup {Head(lock_waiters)}
    /\ lock_waiters' = Tail(lock_waiters)
    /\ pc' = [pc EXCEPT ![p] = "g_read"]
    /\ response' = NoResponse
    /\ UNCHANGED <<indexes, NEXT_EVENT_ID, event, event_id, inserted>>

\* Mutant of GetScan: the per-type index is looked up with
\* entry(type).or_default(), which creates the index of an unknown type.
GetScanCreatesEntry(p, q) ==
    /\ pc[p] = "g_read"
    /\ response' = GetResponse(p, q, get_events(q))
    /\ events_by_type_by_timestamp' =
         [t \in DOMAIN events_by_type_by_timestamp \cup q.event_type |->
             IF t \in DOMAIN events_by_type_by_timestamp
             THEN events_by_type_by_timestamp[t] ELSE <<>>]
    /\ Release(p)
    /\ pc' = [pc EXCEPT ![p] = "idle"]
    /\ UNCHANGED <<event_by_id, events_by_timestamp, NEXT_EVENT_ID,
                   lock_waiters, event, event_id, inserted>>

\* The scan under the read guard, the return and the drop of the guard.
\* The parameters q were fixed when the call was made; nothing reads them
\* before this step.
GetScan(p, q) ==
    /\ pc[p] = "g_read"
    /\ response' = GetResponse(p, q, get_events(q))
    /\ Release(p)
    /\ pc' = [pc EXCEPT ![p] = "idle"]
    /\ UNCHANGED <<indexes, NEXT_EVENT_ID, lock_waiters, event, event_id, inserted>>

\* ---------------------------------------------------------------- Next
\* One step of task p; limit caps the id counter.
Step(p, limit) ==
    \/ \E e \in Event : StoreRejected(p, e)
    \/ /\ NEXT_EVENT_ID < FIRST_EVENT_ID + limit
       /\ \E e \in Event : StoreAllocate(p, e)
    \/ StoreAcquire(p)
    \/ StoreGranted(p)
    \/ StoreByType(p)
    \/ StoreByTimestamp(p)
    \/ StoreById(p)
    \/ GetAcquire(p)
    \/ GetGranted(p)
    \/ \E q \in Query : GetScan(p, q)

\* Concurrent request tasks.
Next == \E p \in Procs : Step(p, MaxEvents)

Spec == Init /\ [][Next]_vars

\* One request at a time, enough of them to exceed MAX_QUERIED_EVENTS.
NextSeq == \E p \in SeqProcs : Step(p, MaxSeqEvents)

SpecSeq == Init /\ [][NextSeq]_vars

\* One request at a time, with the small number of events.
NextOne == \E p \in SeqProcs : Step(p, MaxFewEvents)

SpecOne == Init /\ [][NextOne]_vars

\* The steps of a call of task p that is in progress.
TaskStep(p) ==
    \/ StoreAcquire(p)
    \/ StoreGranted(p)
    \/ StoreByType(p)
    \/ StoreByTimestamp(p)
    \/ StoreById(p)
    \/ GetGranted(p)
    \/ \E q \in Query : GetScan(p, q)

\* The runtime keeps running every task that can run, and the lock hands its
\* guard to the head of its queue as soon as the holders allow it.
Fairness == \A p \in Procs : WF_vars(TaskStep(p))

\* Concurrent request tasks with the small number of events.
NextFew == \E p \in Procs : Step(p, MaxFewEvents)

SpecFair == Init /\ [][NextFew]_vars /\ Fairness

\* One request at a time, with room for a store after the stores that
\* exceed MAX_QUERIED_EVENTS.
NextGrow == \E p \in SeqProcs : Step(p, MaxSeqEvents + 1)

SpecGrow == Init /\ [][NextGrow]_vars

TypeOK ==
    /\ NEXT_EVENT_ID >= FIRST_EVENT_ID
    /\ DOMAIN event_by_id \subseteq FIRST_EVENT_ID..(NEXT_EVENT_ID - 1)
    /\ \A p \in Procs : pc[p] \in {"idle", "s_acquire", "s_wait", "s_by_type",
                                   "s_by_timestamp", "s_by_id", "g_wait", "g_read"}

\* ------------------------------------------------- what a query should find
None == {}
Some(x) == {x}
FullQuery == [event_type |-> None, start |-> None, end |-> None]

\* e satisfies the type filter and every bound that is present.
Matches(e, q) ==
    /\ q.event_type = None \/ e.event_type \in q.event_type
    /\ \A s \in q.start : s <= e.timestamp
    /\ \A x \in q.end : e.timestamp <= x

\* The stored events that match q, in insertion order.
Matching(q) == SelectSeq(inserted, LAMBDA e : Matches(e, q))

AtTimestamp(s, t) == SelectSeq(s, LAMBDA e : e.timestamp = t)

\* s in timestamp order, insertion order kept among equal timestamps.
RECURSIVE ByTimestamp(_, _)
ByTimestamp(s, ts) ==
    IF ts = {} THEN <<>>
    ELSE LET t == Min(ts) IN AtTimestamp(s, t) \o ByTimestamp(s, ts \ {t})

\* The matching events in timestamp-then-insertion order.
Expected(q) == ByTimestamp(Matching(q), Timestamps)

Count(s, v) == Cardinality({i \in 1..Len(s) : s[i] = v})
Elements(s) == {s[i] : i \in 1..Len(s)}

Returned == response.op = "get_events"
ReturnedOk == Returned /\ response.result.kind = "Ok"
Inverted(q) == \E s \in q.start, x \in q.end : s > x

\* ---------------------------------------------------------------- C1
\* C1 (as stated): once store(e) has returned Ok, get_events(None, None, None)
\* succeeds and lists e as many times as it was stored (once per store),
\* however many other events were stored before.
C1_RoundTrip ==
    (Returned /\ response.arg = FullQuery) =>
        \A e \in Elements(inserted) :
            /\ response.result.kind = "Ok"
            /\ Count(response.result.events, e) = Count(inserted, e)

\* C1 (amended): the round trip holds while at most MAX_QUERIED_EVENTS events
\* are stored in total; with more, the full query returns
\* ResultTooLarge(MAX_QUERIED_EVENTS) and lists nothing.
C1_RoundTripWithinCap ==
    (Returned /\ response.arg = FullQuery) =>
        IF Len(inserted) <= MAX_QUERIED_EVENTS
        THEN /\ response.result.kind = "Ok"
             /\ Len(response.result.events) = Len(inserted)
             /\ \A e \in Elements(inserted) :
                    Count(response.result.events, e) = Count(inserted, e)
        ELSE response.result = ResultTooLarge(MAX_QUERIED_EVENTS)

C1_Witness ==
    /\ Returned /\ response.arg = FullQuery
    /\ response.result.kind = "Ok"
    /\ Len(inserted) = MAX_QUERIED_EVENTS
    /\ \E i, j \in 1..Len(inserted) : i # j /\ inserted[i] = inserted[j]

\* ---------------------------------------------------------------- C2
\* C2: every successful get_events result is in ascending timestamp order
\* and, among equal timestamps, in the order in which the store calls held
\* the write guard, for every type filter and bounds.
C2_ResultOrdered ==
    ReturnedOk =>
        LET r == response.result.events IN
        /\ \A i, j \in 1..Len(r) : i < j => r[i].timestamp <= r[j].timestamp
        /\ r = Expected(response.arg)

\* A successful filtered and bounded query over events that were stored out
\* of timestamp order and whose ids are not in lock order.
C2_Witness ==
    /\ ReturnedOk
    /\ Len(response.result.events) >= 2
    /\ \E i, j \in 1..Len(inserted) :
          i < j /\ inserted[i].timestamp > inserted[j].timestamp
    /\ \E t \in DOMAIN events_by_timestamp :
          \E i, j \in 1..Len(events_by_timestamp[t]) :
              i < j /\ events_by_timestamp[t][i] > events_by_timestamp[t][j]

\* ---------------------------------------------------------------- C3
\* C3 (as stated): get_events(Some(t), None, None) returns exactly the stored
\* events of type t, in timestamp-then-insertion order.
C3_TypeFilter ==
    (Returned /\ response.arg.event_type # None
              /\ response.arg.start = None /\ response.arg.end = None) =>
        response.result = Ok(Expected(response.arg))

\* C3 (amended): get_events(Some(t), None, None) returns exactly the stored
\* events of type t in timestamp-then-insertion order when there are at most
\* MAX_QUERIED_EVENTS of them, and ResultTooLarge(MAX_QUERIED_EVENTS)
\* otherwise.
C3_TypeFilterWithinCap ==
    (Returned /\ response.arg.event_type # None
              /\ response.arg.start = None /\ response.arg.end = None) =>
        IF Len(Matching(response.arg)) <= MAX_QUERIED_EVENTS
        THEN response.result = Ok(Expected(response.arg))
        ELSE response.result = ResultTooLarge(MAX_QUERIED_EVENTS)

C3_Witness ==
    /\ ReturnedOk
    /\ response.arg.event_type # None
    /\ response.arg.start = None /\ response.arg.end = None
    /\ Len(response.result.events) >= 2
    /\ Len(response.result.events) < Len(inserted)

\* ---------------------------------------------------------------- C4
\* C4: get_events(None, a, b) returns exactly the stored events with
\* a <= timestamp <= b, and the unbounded query returns the union of the
\* results over all bounds.
C4_RangeFilter ==
    (Returned /\ response.arg.event_type = None) =>
        /\ response.result = Ok(Expected(response.arg))
        /\ response.arg = FullQuery =>
              Elements(response.result.events) =
                 UNION {Elements(Expected(q)) : q \in {x \in Query : x.event_type = None}}

\* ---------------------------------------------------------------- C5
\* C5: get_events returns ResultTooLarge(MAX_QUERIED_EVENTS) when more than
\* MAX_QUERIED_EVENTS stored events match, and all matching events in order
\* when at most MAX_QUERIED_EVENTS match; a successful result is never
\* truncated and never longer than MAX_QUERIED_EVENTS.
C5_SizeCap ==
    Returned =>
        IF Len(Matching(response.arg)) > MAX_QUERIED_EVENTS
        THEN response.result = ResultTooLarge(MAX_QUERIED_EVENTS)
        ELSE response.result = Ok(Expected(response.arg))

\* ---------------------------------------------------------------- C6
\* C6: a get_events call with start > end returns Ok with an empty result,
\* whatever the type filter.
C6_InvertedRangeEmpty ==
    (Returned /\ Inverted(response.arg)) => response.result = Ok(<<>>)

\* ---------------------------------------------------------------- C7
\* C7: get_events with a type filter t of which no event has been stored
\* returns Ok with an empty result, for every combination of bounds and
\* whatever is stored of other types.
C7_UnknownTypeEmpty ==
    (Returned /\ \E t \in response.arg.event_type :
                    \A i \in 1..Len(inserted) : inserted[i].event_type # t) =>
        response.result = Ok(<<>>)

\* An unknown type queried with inverted bounds while more events of
\* another type are stored than a query may return.
C7_Witness ==
    /\ Returned /\ response.result = Ok(<<>>)
    /\ Inverted(response.arg)
    /\ Len(inserted) > MAX_QUERIED_EVENTS
    /\ \E t \in response.arg.event_type \cap AcceptedTypes :
          \A i \in 1..Len(inserted) : inserted[i].event_type # t

\* ---------------------------------------------------------------- C8
\* C8: a store call that returns InvalidEventType leaves event_by_id,
\* events_by_timestamp and events_by_type_by_timestamp unchanged, so every
\* query returns after it what it returned before it.
C8_RejectionNonMutating ==
    [][response'.result.kind = "InvalidEventType" =>
          /\ UNCHANGED indexes
          /\ \A q \in Query : get_events(q)' = get_events(q)]_vars

C8_Witness ==
    /\ response.op = "store"
    /\ response.result = InvalidEventType(REJECTED_EVENT_TYPE)
    /\ Len(inserted) = MaxFewEvents

\* ---------------------------------------------------------------- C9
HoldsRead(p) == pc[p] = "g_read"
IdsOf(map) == UNION {Elements(map[k]) : k \in DOMAIN map}
IdsByTimestamp == IdsOf(events_by_timestamp)
IdsByType ==
    UNION {IdsOf(events_by_type_by_timestamp[t]) :
              t \in DOMAIN events_by_type_by_timestamp}

\* C9: while a get_events call holds the read guard, every store has made
\* all three of its updates or none: the ids of the per-type index, of the
\* timestamp index and of event_by_id are the same, no store is between its
\* updates, and an id allocated but not yet installed is in no index.
C9_AtomicVisibility ==
    \A r \in Procs : HoldsRead(r) =>
        /\ IdsByType = IdsByTimestamp
        /\ IdsByTimestamp = DOMAIN event_by_id
        /\ \A p \in Procs :
              /\ pc[p] \notin {"s_by_type", "s_by_timestamp", "s_by_id"}
              /\ pc[p] \in {"s_acquire", "s_wait"} =>
                    event_id[p] \notin IdsByType \cup IdsByTimestamp
                                         \cup DOMAIN event_by_id

\* A reader holds the guard over a non-empty store while a store that has
\* its id is waiting for the guard.
C9_Witness ==
    /\ \E r \in Procs : HoldsRead(r)
    /\ \E p \in Procs : pc[p] = "s_wait" /\ event_id[p] # 0
    /\ DOMAIN event_by_id # {}

\* ---------------------------------------------------------------- C10
\* C10: events with the same timestamp appear in every successful query
\* result in the order in which their store calls held the write guard.
C10_InsertOrder ==
    ReturnedOk =>
        \A t \in Timestamps :
            AtTimestamp(response.result.events, t) =
                AtTimestamp(Matching(response.arg), t)

\* Two different events with one timestamp, the first stored with the
\* larger id, both in a successful result.
C10_Witness ==
    /\ ReturnedOk
    /\ \E t \in DOMAIN events_by_timestamp :
          LET b == events_by_timestamp[t] IN
          /\ Len(b) = 2 /\ b[1] > b[2]
          /\ event_by_id[b[1]] # event_by_id[b[2]]
          /\ AtTimestamp(response.result.events, t) =
                <<event_by_id[b[1]], event_by_id[b[2]]>>

\* ---------------------------------------------------------------- C11
\* C11: a get_events call observes every store that returned Ok before the
\* query took the read guard, hence every store that returned before the
\* query started: each such event that matches is in the result as often as
\* it was stored, or the call returns ResultTooLarge because more than
\* MAX_QUERIED_EVENTS events match; a call that ends otherwise had no
\* matching event to observe.
C11_WriteVisibility ==
    Returned =>
        LET m == Matching(response.arg) IN
        CASE response.result.kind = "Ok" ->
                \A e \in Elements(m) : Count(response.result.events, e) = Count(m, e)
          [] response.result.kind = "ResultTooLarge" -> Len(m) > MAX_QUERIED_EVENTS
          [] OTHER -> m = <<>>

\* A query returns the event of the store that completed last, with as many
\* events stored as the specification allows, while another query is queued.
C11_Witness ==
    /\ ReturnedOk
    /\ Len(inserted) = MaxEvents
    /\ response.result.events # <<>>
    /\ response.result.events[Len(response.result.events)] = inserted[Len(inserted)]
    /\ \E p \in Procs : pc[p] = "g_wait"

\* ---------------------------------------------------------------- C12
\* C12: store returns Ok or InvalidEventType and get_events returns Ok or
\* ResultTooLarge, for every input in every reachable state; no call panics.
C12_TypedOutcomes ==
    /\ response.op = "store" =>
          response.result.kind \in {"Ok", "InvalidEventType"}
    /\ response.op = "get_events" =>
          response.result.kind \in {"Ok", "ResultTooLarge"}

\* ---------------------------------------------------------------- C13
\* A store has made some but not all of its three updates.
MidStore(p) == pc[p] \in {"s_by_timestamp", "s_by_id"}
BetweenStores == \A p \in Procs : ~MidStore(p)

\* C13 (I1): between completed store calls the ids of events_by_timestamp,
\* the ids of all per-type indexes and the keys of event_by_id are the same
\* set.
C13_IndexConsistency ==
    BetweenStores =>
        /\ IdsByTimestamp = DOMAIN event_by_id
        /\ IdsByType = DOMAIN event_by_id

\* Stored events of both types, a store that holds the write guard and has
\* not begun its updates.
C13_Witness ==
    /\ BetweenStores
    /\ Cardinality(DOMAIN event_by_id) >= 2
    /\ Cardinality(DOMAIN events_by_type_by_timestamp) >= 2
    /\ \E p \in Procs : pc[p] = "s_by_type"

\* ---------------------------------------------------------------- C14
\* The places (bucket key, position) at which id occurs in a timestamp map.
Places(map, id) ==
    UNION {{<<k, i>> : i \in {j \in 1..Len(map[k]) : map[k][j] = id}} :
              k \in DOMAIN map}

\* C14 (I2, I3): between completed store calls every stored id occurs exactly
\* once in events_by_timestamp, in the bucket of its event's timestamp, and
\* exactly once in all per-type indexes together, in the index of its
\* event's type and the bucket of its timestamp.
C14_IndexPlacement ==
    BetweenStores =>
        \A id \in DOMAIN event_by_id :
            LET e == event_by_id[id] IN
            /\ Cardinality(Places(events_by_timestamp, id)) = 1
            /\ \E i \in 1..Len(events_by_timestamp[e.timestamp]) :
                  events_by_timestamp[e.timestamp][i] = id
            /\ \A t \in DOMAIN events_by_type_by_timestamp :
                  Cardinality(Places(events_by_type_by_timestamp[t], id)) =
                      IF t = e.event_type THEN 1 ELSE 0
            /\ e.event_type \in DOMAIN events_by_type_by_timestamp
            /\ e.timestamp \in DOMAIN events_by_type_by_timestamp[e.event_type]
            /\ \E i \in 1..Len(events_by_type_by_timestamp[e.event_type][e.timestamp]) :
                  events_by_type_by_timestamp[e.event_type][e.timestamp][i] = id

\* Two events of one type and one timestamp and an event of the other type.
C14_Witness ==
    /\ BetweenStores
    /\ Cardinality(DOMAIN event_by_id) = MaxEvents
    /\ \E t \in DOMAIN events_by_type_by_timestamp :
          \E k \in DOMAIN events_by_type_by_timestamp[t] :
              Len(events_by_type_by_timestamp[t][k]) = 2
    /\ Cardinality(DOMAIN events_by_type_by_timestamp) = 2

\* ---------------------------------------------------------------- C15
Ascending(vec) == \A i, j \in 1..Len(vec) : i < j => vec[i] < vec[j]

\* C15 (I4): the order in which stores take the write guard is the order of
\* their ids, so in every bucket of events_by_timestamp and of every
\* per-type index the ids are strictly ascending.
C15_BucketIdsAscending ==
    /\ \A k \in DOMAIN events_by_timestamp : Ascending(events_by_timestamp[k])
    /\ \A t \in DOMAIN events_by_type_by_timestamp :
          \A k \in DOMAIN events_by_type_by_timestamp[t] :
              Ascending(events_by_type_by_timestamp[t][k])

\* ---------------------------------------------------------------- C16
\* The query q without its type filter.
Unfiltered(q) == [q EXCEPT !.event_type = None]
OfType(s, types) == SelectSeq(s, LAMBDA e : e.event_type \in types)

\* A typed query whose bounds are not inverted and that matches at most
\* MAX_QUERIED_EVENTS events has returned.
ReturnedTypedWithinCap ==
    /\ Returned
    /\ response.arg.event_type # None
    /\ ~Inverted(response.arg)
    /\ Len(Matching(response.arg)) <= MAX_QUERIED_EVENTS

\* C16 (as stated): such a query returns exactly the stored events of type t
\* within the bounds that are present, in timestamp-then-insertion order, and
\* this is the result of the unfiltered query with the same bounds, restricted
\* to type t.
C16_CombinedFilter ==
    ReturnedTypedWithinCap =>
        LET u == get_events(Unfiltered(response.arg)) IN
        /\ response.result = Ok(Expected(response.arg))
        /\ u.kind = "Ok"
        /\ OfType(u.events, response.arg.event_type) = response.result.events

\* C16 (amended): such a query returns exactly the stored events of type t
\* within the bounds that are present, in timestamp-then-insertion order; it
\* is the result of the unfiltered query with the same bounds restricted to
\* type t when at most MAX_QUERIED_EVENTS events of any type lie within the
\* bounds, and otherwise the unfiltered query returns ResultTooLarge.
C16_CombinedFilterWithinCap ==
    ReturnedTypedWithinCap =>
        LET u == get_events(Unfiltered(response.arg)) IN
        /\ response.result = Ok(Expected(response.arg))
        /\ IF Len(Matching(Unfiltered(response.arg))) <= MAX_QUERIED_EVENTS
           THEN /\ u.kind = "Ok"
                /\ OfType(u.events, response.arg.event_type) = response.result.events
           ELSE u = ResultTooLarge(MAX_QUERIED_EVENTS)

\* A typed query with both bounds returns some but not all of the events the
\* unfiltered query returns within the same bounds, and events lie outside
\* the bounds.
C16_Witness ==
    /\ ReturnedTypedWithinCap
    /\ response.arg.start # None /\ response.arg.end # None
    /\ response.result.kind = "Ok"
    /\ Len(response.result.events) >= 2
    /\ LET u == get_events(Unfiltered(response.arg)) IN
          /\ u.kind = "Ok"
          /\ Len(u.events) > Len(response.result.events)
          /\ Len(u.events) < Len(inserted)

\* ---------------------------------------------------------------- C17
\* The ids held by stores in progress and the ids in the maps.
InFlightIds == {event_id[p] : p \in Procs} \ {0}
AllocatedIds == InFlightIds \cup DOMAIN event_by_id \cup IdsByType \cup IdsByTimestamp

\* C17: every accepted store gets an id greater than every id allocated
\* before, no two stores hold the same id, no id is handed out again, and a
\* rejected store leaves the counter unchanged.
C17_IdAllocation ==
    [][/\ \A i \in AllocatedIds : i < NEXT_EVENT_ID
       /\ \A p, r \in Procs :
             (p # r /\ event_id[p] # 0) => event_id[p] # event_id[r]
       /\ InFlightIds \cap DOMAIN event_by_id = {}
       /\ NEXT_EVENT_ID' >= NEXT_EVENT_ID
       /\ \A p \in Procs :
             /\ event_id[p] # 0 => event_id'[p] \in {event_id[p], 0}
             /\ (event_id[p] = 0 /\ event_id'[p] # 0) =>
                   /\ event_id'[p] >= NEXT_EVENT_ID
                   /\ event_id'[p] < NEXT_EVENT_ID'
                   /\ \A i \in AllocatedIds : event_id'[p] > i
       /\ response'.result.kind = "InvalidEventType" =>
             /\ NEXT_EVENT_ID' = NEXT_EVENT_ID
             /\ event_id' = event_id]_vars

\* A store is rejected while another store, holding the latest id, waits for
\* the guard and an earlier event is stored.
C17_Witness ==
    /\ response.result.kind = "InvalidEventType"
    /\ \E p \in Procs : pc[p] = "s_wait" /\ event_id[p] = NEXT_EVENT_ID - 1
    /\ DOMAIN event_by_id # {}

\* ---------------------------------------------------------------- C18
\* C18: with a fair runtime and a fair lock every started store and every
\* started get_events call completes, whatever the other tasks do, and a call
\* can be kept from its next step only while it waits for the lock.
C18_Progress ==
    /\ \A p \in Procs :
          [](pc[p] \notin {"idle", "s_wait", "g_wait"} => ENABLED TaskStep(p))
    /\ \A p \in Procs : (pc[p] # "idle") ~> (pc[p] = "idle")

\* A store waits for the guard that a query holds.
C18_Witness ==
    \E p, r \in Procs :
        /\ pc[p] = "s_wait" /\ pc[r] = "g_read"
        /\ lock_holders = {[proc |-> r, mode |-> "read"]}
        /\ Len(lock_waiters) = 1

\* ---------------------------------------------------------------- C19
\* Task p takes a step of a get_events call.
GetStep(p) ==
    \/ pc[p] = "idle" /\ pc'[p] = "g_wait"
    \/ pc[p] = "g_wait" /\ pc'[p] = "g_read"
    \/ pc[p] = "g_read" /\ pc'[p] = "idle"

\* C19: no step of get_events, whether the call returns Ok or
\* ResultTooLarge, changes event_by_id, the two indexes or the id counter; a
\* call with the parameters of the call that just returned, made before any
\* store completes, returns the same outcome.
C19_QueriesReadOnly ==
    [][/\ (\E p \in Procs : GetStep(p)) => UNCHANGED <<indexes, NEXT_EVENT_ID>>
       /\ response'.op = "get_events" =>
             \A q \in Query :
                 q = response'.arg => get_events(q)' = response'.result
       /\ (response.op = "get_events" /\ response'.op = "get_events"
              /\ response'.arg = response.arg) =>
             response'.result = response.result]_vars

\* A query returns ResultTooLarge.
C19_Witness ==
    /\ Returned
    /\ response.result = ResultTooLarge(MAX_QUERIED_EVENTS)
    /\ response.arg.event_type # None
    /\ Len(inserted) > MAX_QUERIED_EVENTS

\* ---------------------------------------------------------------- C20
Prefix(a, b) == Len(a) <= Len(b) /\ SubSeq(b, 1, Len(a)) = a

\* The number of stored events that match q.
MatchCount(q) ==
    Cardinality({id \in DOMAIN event_by_id : Matches(event_by_id[id], q)})

TooLarge(q) == get_events(q).kind = "ResultTooLarge"

\* C20: no step removes or changes a stored event or an index entry; the
\* number of stored events matching a query never decreases, and a query that
\* returns ResultTooLarge keeps returning it.  (MatchCount reads event_by_id
\* only and get_events reads the three maps only, so steps that leave them
\* unchanged need no comparison.)
C20_AppendOnly ==
    [][/\ \A id \in DOMAIN event_by_id :
             id \in DOMAIN event_by_id' /\ event_by_id'[id] = event_by_id[id]
       /\ \A k \in DOMAIN events_by_timestamp :
             /\ k \in DOMAIN events_by_timestamp'
             /\ Prefix(events_by_timestamp[k], events_by_timestamp'[k])
       /\ \A t \in DOMAIN events_by_type_by_timestamp :
             /\ t \in DOMAIN events_by_type_by_timestamp'
             /\ \A k \in DOMAIN events_by_type_by_timestamp[t] :
                   /\ k \in DOMAIN events_by_type_by_timestamp'[t]
                   /\ Prefix(events_by_type_by_timestamp[t][k],
                             events_by_type_by_timestamp'[t][k])
       /\ event_by_id' # event_by_id =>
             \A q \in Query : MatchCount(q) <= MatchCount(q)'
       /\ indexes' # indexes =>
             \A q \in Query : TooLarge(q) => TooLarge(q)']_vars

\* A store completes when the unfiltered query was already too large.
C20_Witness ==
    /\ response.op = "store" /\ response.result.kind = "Ok"
    /\ Len(inserted) = MAX_QUERIED_EVENTS + 2
    /\ TooLarge(FullQuery)
    /\ \E q \in Query : q.event_type # None /\ TooLarge(q)
====
